---- MODULE Spec2Model ----
(***************************************************************************)
(* Dialogue-control core of touhou-talk: TopicTracker, ObjectRegistry,     *)
(* DriftDetector and TurnController, modelled as state machines.           *)
(*                                                                         *)
(* Strings that the code normalizes are sequences of one-character         *)
(* strings, so that strip() and lower() are computed.  Python's None and   *)
(* the empty string are both the empty sequence: the code only ever tests  *)
(* them by truthiness, and a normalized id is never empty.                 *)
(* Severities are in tenths (0.8 is 8).                                    *)
(***************************************************************************)
EXTENDS Integers, Sequences, FiniteSets, TLC

\* ------------------------------------------------------------------
\* bounds
\* ------------------------------------------------------------------
\* operations per run of a tracker: with the full input sets, with focus and
\* rejection calls only, and with one plain candidate per registration
MaxSteps == 3
MaxFocusSteps == 4
MaxEvictSteps == 5
\* operations per run of a registry
MaxFinalizeSteps == 4
MaxRegistrySteps == 4
\* processed detect calls per run: with the full inputs, and with intent flags only
MaxDetectCalls == 2
MaxQuestionCalls == 3
\* length of the event lists handed to decide
MaxWindowCalls == 6
MaxEvents == 3
\* operations per run of a tracker and a registry that are also queried
MaxQuerySteps == 3

None == <<>>

\* raw topic strings handed in by the caller
RawTopics == { <<" ", "A">>, <<"b">>, <<"c">> }
ParentHints == { None, <<"c">> }
CandidateLists == { <<x>> : x \in RawTopics } \cup { << <<"b">>, <<"c">> >> }
SignalLists == { << <<"b">> >>, << <<" ", "A">>, <<"c">> >> }
Suggestions == { None, <<"b">> }
RawObjects == { <<"A", " ">>, <<"b">> }
Roles == {"user"}

\* detect inputs
UserIntents == [explicit_topic_change : BOOLEAN, requested_speculation : BOOLEAN]
AiIntents == [speculation : BOOLEAN, is_question : BOOLEAN, followup_question : BOOLEAN]
Weather == <<"weather">>
Lunch == <<"lunch">>
\* topic_before and topic_after: absent or present, equal or different
TopicPairs == { <<None, None>>, <<Weather, None>>, <<None, Lunch>>,
                <<Weather, Weather>>, <<Weather, Lunch>> }
ObjectEvent(type) == [type |-> type, name |-> "sword"]
ObjectEventLists == { <<>>, <<ObjectEvent("assumed")>>, <<ObjectEvent("denied_but_used")>>,
                      <<ObjectEvent("denied_but_used"), ObjectEvent("mentioned"), ObjectEvent("assumed")>> }
\* severities an event may carry, in tenths
Severities == {0, 5, 8, 10}
DormantChoices == {2}

\* ------------------------------------------------------------------
\* TopicStatus
\* ------------------------------------------------------------------
ACTIVE == "active"
AVAILABLE == "available"
SPECULATIVE == "speculative"
REJECTED == "rejected"
DORMANT == "dormant"

\* ------------------------------------------------------------------
\* ObjectStatus, DriftType, TurnMode
\* ------------------------------------------------------------------
CONFIRMED == "confirmed"
ASSUMED == "assumed"
DENIED == "denied"
UNKNOWN == "unknown"

ASSUMPTION_LEAP == "assumption_leap"
TOPIC_SHIFT == "topic_shift"
OBJECT_OVERCOMMIT == "object_overcommit"
DENIAL_IGNORED == "denial_ignored"
SPECULATION_CHAIN == "speculation_chain"
QUESTION_LOOP == "question_loop"
DriftTypes == {ASSUMPTION_LEAP, TOPIC_SHIFT, OBJECT_OVERCOMMIT, DENIAL_IGNORED,
               SPECULATION_CHAIN, QUESTION_LOOP}

NORMAL == "normal"
REFOCUS == "refocus"
FACT_ONLY == "fact_only"
NO_QUESTION == "no_question"
REPAIR == "repair"
SHORT_RESPONSE == "short_response"

VARIABLES turn_index, topics, active_topic_id, focus_history,
          max_topics, dormant_after_turns, allow_revival,
          enfLog, steps, budget,
          reg_turn_index, objects, reg_steps,
          last_turn_checked, recent_questions, recent_speculation, det_events, det_calls, det_skipped, det_budget, det_log,
          drift_events, instruction,
          answer,
          gate_policy, gate_request, gate_decision

topicVars == <<turn_index, topics, active_topic_id, focus_history,
               max_topics, dormant_after_turns, allow_revival, enfLog, steps, budget>>

\* ------------------------------------------------------------------
\* normalization: strip() then lower(); empty becomes "_empty_"
\* ------------------------------------------------------------------
Lower(c) == CASE c = "A" -> "a"
              [] c = "B" -> "b"
              [] c = "C" -> "c"
              [] OTHER -> c

RECURSIVE LStrip(_)
LStrip(s) == IF s # <<>> /\ Head(s) = " " THEN LStrip(Tail(s)) ELSE s

RECURSIVE RStrip(_)
RStrip(s) == IF s # <<>> /\ s[Len(s)] = " " THEN RStrip(SubSeq(s, 1, Len(s) - 1)) ELSE s

Strip(s) == RStrip(LStrip(s))

EmptyId == <<"_", "e", "m", "p", "t", "y", "_">>

\* returns <<topic_id, label>>
NormalizeTopic(raw) ==
    LET label == Strip(raw)
        topic_id == [i \in 1..Len(label) |-> Lower(label[i])]
    IN IF topic_id = <<>> THEN <<EmptyId, EmptyId>> ELSE <<topic_id, label>>

\* ------------------------------------------------------------------
\* the _topics dict: a sequence of nodes in insertion order
\* ------------------------------------------------------------------
Ids(tp) == {tp[i].topic_id : i \in 1..Len(tp)}

IndexOf(tp, id) == IF id \in Ids(tp) THEN CHOOSE i \in 1..Len(tp) : tp[i].topic_id = id ELSE 0

Node(tp, id) == tp[IndexOf(tp, id)]

TopicNode(id, label, status, parent, turn, reason) ==
    [topic_id |-> id, label |-> label, status |-> status, parent_id |-> parent,
     children_ids |-> <<>>, evidence |-> <<>>, last_touched_turn |-> turn,
     rejected_reason |-> reason]

TopicEvidence(turn, role, note) == [turn_index |-> turn, role |-> role, note |-> note]

\* list.remove(x): drops the first occurrence
RemoveFirst(s, x) ==
    IF \E i \in 1..Len(s) : s[i] = x
    THEN LET k == CHOOSE i \in 1..Len(s) : s[i] = x /\ \A j \in 1..(i - 1) : s[j] # x
         IN SubSeq(s, 1, k - 1) \o SubSeq(s, k + 1, Len(s))
    ELSE s

RemoveAt(s, k) == SubSeq(s, 1, k - 1) \o SubSeq(s, k + 1, Len(s))

Contains(s, x) == \E i \in 1..Len(s) : s[i] = x

\* parent.children_ids.append(topic_id) when the parent is live and lacks it
LinkChild(tp, parent_id, topic_id) ==
    IF parent_id # None /\ parent_id \in Ids(tp)
    THEN LET p == IndexOf(tp, parent_id)
         IN IF Contains(tp[p].children_ids, topic_id) THEN tp
            ELSE [tp EXCEPT ![p].children_ids = Append(@, topic_id)]
    ELSE tp

\* ------------------------------------------------------------------
\* internal: dormant / max enforcement
\* ------------------------------------------------------------------
\* mutant: a topic goes dormant one turn late
ApplyDormantRulesLate(tp, turn, dormantAfter) ==
    [i \in 1..Len(tp) |->
        IF tp[i].status \in {ACTIVE, REJECTED} THEN tp[i]
        ELSE IF turn - tp[i].last_touched_turn > dormantAfter
             THEN [tp[i] EXCEPT !.status = DORMANT]
             ELSE tp[i]]

ApplyDormantRules(tp, turn, dormantAfter) ==
    [i \in 1..Len(tp) |->
        IF tp[i].status \in {ACTIVE, REJECTED} THEN tp[i]
        ELSE IF turn - tp[i].last_touched_turn >= dormantAfter
             THEN [tp[i] EXCEPT !.status = DORMANT]
             ELSE tp[i]]

\* mutant: the rejected topics are left unprotected
ProtectedFocusOnly(tp, act) == IF act # None THEN {act} ELSE {}

Protected(tp, act) ==
    (IF act # None THEN {act} ELSE {}) \cup
    {tp[i].topic_id : i \in {j \in 1..Len(tp) : tp[j].status = REJECTED}}

\* mutant: the candidates are left in dict order
SortByInsertion(nodes) == nodes

\* list.sort(key=last_touched_turn): stable, so ties keep dict order
RECURSIVE SortByTouched(_)
SortByTouched(nodes) ==
    IF nodes = <<>> THEN <<>>
    ELSE LET k == CHOOSE i \in 1..Len(nodes) :
                    /\ \A j \in 1..Len(nodes) : nodes[i].last_touched_turn <= nodes[j].last_touched_turn
                    /\ \A j \in 1..(i - 1) : nodes[j].last_touched_turn > nodes[i].last_touched_turn
         IN <<nodes[k]>> \o SortByTouched(RemoveAt(nodes, k))

\* mutant: the victim stays in its parent's children list
EvictStillListed(tp, vid) ==
    LET v == Node(tp, vid)
        kids == {v.children_ids[i] : i \in 1..Len(v.children_ids)}
        orphaned == [i \in 1..Len(tp) |->
                        IF tp[i].topic_id \in kids
                        THEN [tp[i] EXCEPT !.parent_id = None]
                        ELSE tp[i]]
    IN RemoveAt(orphaned, IndexOf(orphaned, vid))

\* one pass of the while loop: unlink the victim, orphan its children, delete it
Evict(tp, vid) ==
    LET v == Node(tp, vid)
        unlinked == IF v.parent_id # None /\ v.parent_id \in Ids(tp)
                    THEN [tp EXCEPT ![IndexOf(tp, v.parent_id)].children_ids = RemoveFirst(@, vid)]
                    ELSE tp
        kids == {v.children_ids[i] : i \in 1..Len(v.children_ids)}
        orphaned == [i \in 1..Len(unlinked) |->
                        IF unlinked[i].topic_id \in kids
                        THEN [unlinked[i] EXCEPT !.parent_id = None]
                        ELSE unlinked[i]]
    IN RemoveAt(orphaned, IndexOf(orphaned, vid))

RECURSIVE EvictLoop(_, _, _)
EvictLoop(tp, cands, maxT) ==
    IF Len(tp) > maxT /\ cands # <<>>
    THEN EvictLoop(Evict(tp, Head(cands)), Tail(cands), maxT)
    ELSE tp

EnforceMaxTopics(tp, act, maxT) ==
    IF Len(tp) <= maxT THEN tp
    ELSE LET prot == Protected(tp, act)
             candidates == SortByTouched(SelectSeq(tp, LAMBDA t : t.topic_id \notin prot))
         IN EvictLoop(tp, [i \in 1..Len(candidates) |-> candidates[i].topic_id], maxT)

EnfRecord(tp, act, maxT) == [pre |-> tp, act |-> act, post |-> EnforceMaxTopics(tp, act, maxT)]

AddEvidence(node, turn, role, note) ==
    [node EXCEPT !.evidence = Append(@, TopicEvidence(turn, role, note))]

\* ------------------------------------------------------------------
\* register_candidates: the body of the for loop, for one raw candidate
\* ------------------------------------------------------------------
\* mutant: a plain mention makes an existing DORMANT topic AVAILABLE again
RegisterOneWaking(tp, raw, parent_id, speculative, role, turn, revival) ==
    LET n == NormalizeTopic(raw)
        topic_id == n[1]
        k == IndexOf(tp, topic_id)
    IN IF k # 0 /\ tp[k].status = REJECTED /\ ~revival
       THEN [tp EXCEPT ![k] = [AddEvidence(@, turn, role, "(rejected-topic-mentioned)")
                                 EXCEPT !.last_touched_turn = turn]]
       ELSE IF k = 0
       THEN LET status == IF speculative THEN SPECULATIVE ELSE AVAILABLE
                node == AddEvidence(TopicNode(topic_id, n[2], status, parent_id, turn, ""),
                                    turn, role, "")
            IN LinkChild(Append(tp, node), parent_id, topic_id)
       ELSE LET touched == [AddEvidence(tp[k], turn, role, "") EXCEPT !.last_touched_turn = turn]
                graded == IF speculative /\ touched.status \notin {REJECTED, ACTIVE}
                          THEN [touched EXCEPT !.status = SPECULATIVE]
                          ELSE IF touched.status = DORMANT
                               THEN [touched EXCEPT !.status = AVAILABLE]
                               ELSE touched
            IN IF graded.parent_id = None /\ parent_id # None
               THEN LinkChild([tp EXCEPT ![k] = [graded EXCEPT !.parent_id = parent_id]],
                              parent_id, topic_id)
               ELSE [tp EXCEPT ![k] = graded]

RegisterOne(tp, raw, parent_id, speculative, role, turn, revival) ==
    LET n == NormalizeTopic(raw)
        topic_id == n[1]
        k == IndexOf(tp, topic_id)
    IN IF k # 0 /\ tp[k].status = REJECTED /\ ~revival
       THEN [tp EXCEPT ![k] = [AddEvidence(@, turn, role, "(rejected-topic-mentioned)")
                                 EXCEPT !.last_touched_turn = turn]]
       ELSE IF k = 0
       THEN LET status == IF speculative THEN SPECULATIVE ELSE AVAILABLE
                node == AddEvidence(TopicNode(topic_id, n[2], status, parent_id, turn, ""),
                                    turn, role, "")
            IN LinkChild(Append(tp, node), parent_id, topic_id)
       ELSE LET touched == [AddEvidence(tp[k], turn, role, "") EXCEPT !.last_touched_turn = turn]
                graded == IF speculative /\ touched.status \notin {REJECTED, ACTIVE}
                          THEN [touched EXCEPT !.status = SPECULATIVE]
                          ELSE touched
            IN IF graded.parent_id = None /\ parent_id # None
               THEN LinkChild([tp EXCEPT ![k] = [graded EXCEPT !.parent_id = parent_id]],
                              parent_id, topic_id)
               ELSE [tp EXCEPT ![k] = graded]

RECURSIVE RegisterLoop(_, _, _, _, _, _, _)
RegisterLoop(tp, cands, parent_id, speculative, role, turn, revival) ==
    IF cands = <<>> THEN tp
    ELSE RegisterLoop(RegisterOne(tp, Head(cands), parent_id, speculative, role, turn, revival),
                      Tail(cands), parent_id, speculative, role, turn, revival)

\* ------------------------------------------------------------------
\* reject_topic; returns the topics before enforcement and the focus
\* ------------------------------------------------------------------
\* mutant: the focus is kept when the focused topic is rejected
RejectMarkKeepFocus(tp, act, raw, reason, role, turn) ==
    LET n == NormalizeTopic(raw)
        topic_id == n[1]
        k == IndexOf(tp, topic_id)
        marked == IF k = 0
                  THEN Append(tp, AddEvidence(TopicNode(topic_id, n[2], REJECTED, None, turn, reason),
                                              turn, role, "(rejected-created)"))
                  ELSE [tp EXCEPT ![k] = [AddEvidence(@, turn, role, "(rejected)")
                                            EXCEPT !.status = REJECTED,
                                                   !.rejected_reason = reason,
                                                   !.last_touched_turn = turn]]
    IN [tp |-> marked, act |-> act]

RejectMark(tp, act, raw, reason, role, turn) ==
    LET n == NormalizeTopic(raw)
        topic_id == n[1]
        k == IndexOf(tp, topic_id)
        marked == IF k = 0
                  THEN Append(tp, AddEvidence(TopicNode(topic_id, n[2], REJECTED, None, turn, reason),
                                              turn, role, "(rejected-created)"))
                  ELSE [tp EXCEPT ![k] = [AddEvidence(@, turn, role, "(rejected)")
                                            EXCEPT !.status = REJECTED,
                                                   !.rejected_reason = reason,
                                                   !.last_touched_turn = turn]]
    IN [tp |-> marked, act |-> IF act = topic_id THEN None ELSE act]

\* st = [tp, act, log]: topics, focus, and the enforcement calls made so far
RejectTopic(st, raw, reason, role, turn, maxT) ==
    LET m == RejectMark(st.tp, st.act, raw, reason, role, turn)
        e == EnfRecord(m.tp, m.act, maxT)
    IN [tp |-> e.post, act |-> m.act, log |-> Append(st.log, e)]

RECURSIVE CorrectionsLoop(_, _, _, _)
CorrectionsLoop(st, signals, turn, maxT) ==
    IF signals = <<>> THEN st
    ELSE CorrectionsLoop(RejectTopic(st, Head(signals)[1], Head(signals)[2], "user", turn, maxT),
                         Tail(signals), turn, maxT)

\* ------------------------------------------------------------------
\* set_focus / finalize_focus
\* ------------------------------------------------------------------
\* mutant: a rejected topic is focused like any other
SetFocusNoRefusal(st, raw, turn, maxT, revival) ==
    LET n == NormalizeTopic(raw)
        topic_id == n[1]
        created == IF IndexOf(st.tp, topic_id) = 0
                   THEN Append(st.tp, AddEvidence(TopicNode(topic_id, n[2], AVAILABLE, None, turn, ""),
                                                  turn, "system", "(focus-created)"))
                   ELSE st.tp
        k == IndexOf(created, topic_id)
        p == IndexOf(created, st.act)
        demoted == IF st.act # None /\ p # 0 /\ created[p].status = ACTIVE
                   THEN [created EXCEPT ![p].status = AVAILABLE]
                   ELSE created
        focused == [demoted EXCEPT ![k].status = ACTIVE, ![k].last_touched_turn = turn]
        e == EnfRecord(focused, topic_id, maxT)
    IN [tp |-> e.post, act |-> topic_id, log |-> Append(st.log, e)]

\* mutant: the previous focus keeps its ACTIVE status
SetFocusNoDemote(st, raw, turn, maxT, revival) ==
    LET n == NormalizeTopic(raw)
        topic_id == n[1]
        created == IF IndexOf(st.tp, topic_id) = 0
                   THEN Append(st.tp, AddEvidence(TopicNode(topic_id, n[2], AVAILABLE, None, turn, ""),
                                                  turn, "system", "(focus-created)"))
                   ELSE st.tp
        k == IndexOf(created, topic_id)
    IN IF created[k].status = REJECTED /\ ~revival
       THEN [tp |-> created, act |-> None, log |-> st.log]
       ELSE LET focused == [created EXCEPT ![k].status = ACTIVE, ![k].last_touched_turn = turn]
                e == EnfRecord(focused, topic_id, maxT)
            IN [tp |-> e.post, act |-> topic_id, log |-> Append(st.log, e)]

SetFocus(st, raw, turn, maxT, revival) ==
    LET n == NormalizeTopic(raw)
        topic_id == n[1]
        created == IF IndexOf(st.tp, topic_id) = 0
                   THEN Append(st.tp, AddEvidence(TopicNode(topic_id, n[2], AVAILABLE, None, turn, ""),
                                                  turn, "system", "(focus-created)"))
                   ELSE st.tp
        k == IndexOf(created, topic_id)
    IN IF created[k].status = REJECTED /\ ~revival
       THEN [tp |-> created, act |-> None, log |-> st.log]
       ELSE LET p == IndexOf(created, st.act)
                demoted == IF st.act # None /\ p # 0 /\ created[p].status = ACTIVE
                           THEN [created EXCEPT ![p].status = AVAILABLE]
                           ELSE created
                focused == [demoted EXCEPT ![k].status = ACTIVE, ![k].last_touched_turn = turn]
                e == EnfRecord(focused, topic_id, maxT)
            IN [tp |-> e.post, act |-> topic_id, log |-> Append(st.log, e)]

\* list.sort(key=last_touched_turn, reverse=True)[0]: stable, ties keep dict order
\* mutant: the first candidate in insertion order is taken
MostRecentFirst(nodes) == nodes[1]

MostRecent(nodes) ==
    LET k == CHOOSE i \in 1..Len(nodes) :
                /\ \A j \in 1..Len(nodes) : nodes[i].last_touched_turn >= nodes[j].last_touched_turn
                /\ \A j \in 1..(i - 1) : nodes[j].last_touched_turn < nodes[i].last_touched_turn
    IN nodes[k]

FinalizeFocus(st, suggested, fallback, turn, maxT, revival) ==
    IF suggested # None THEN SetFocus(st, suggested, turn, maxT, revival)
    ELSE LET candidates == SelectSeq(st.tp, LAMBDA t : t.status \in {AVAILABLE, SPECULATIVE, ACTIVE})
         IN IF fallback /\ candidates # <<>>
            THEN SetFocus(st, MostRecent(candidates).topic_id, turn, maxT, revival)
            ELSE st

\* the value finalize_focus returns: _active_topic_id as the call leaves it
FinalizeFocusReturn(st, suggested, fallback, turn, maxT, revival) ==
    FinalizeFocus(st, suggested, fallback, turn, maxT, revival).act

\* ------------------------------------------------------------------
\* TopicTracker: construction and public operations
\* ------------------------------------------------------------------
TopicInit ==
    /\ turn_index = 0
    /\ topics = <<>>
    /\ active_topic_id = None
    /\ focus_history = <<>>
    /\ dormant_after_turns \in DormantChoices
    /\ allow_revival \in BOOLEAN
    /\ enfLog = <<>>
    /\ steps = 0

\* the constructor arguments never change; every operation counts as a step
TopicConfigUnchanged ==
    /\ steps < budget
    /\ steps' = steps + 1
    /\ UNCHANGED <<max_topics, dormant_after_turns, allow_revival, budget>>

on_turn_start(t) ==
    /\ TopicConfigUnchanged
    /\ t > turn_index
    /\ t <= turn_index + 2
    /\ turn_index' = t
    /\ topics' = ApplyDormantRules(topics, t, dormant_after_turns)
    /\ focus_history' = Append(focus_history, active_topic_id)
    /\ enfLog' = <<>>
    /\ UNCHANGED active_topic_id

register_candidates(role, candidates, speculative, parent_hint) ==
    LET parent_id == IF parent_hint # None THEN parent_hint ELSE active_topic_id
        registered == RegisterLoop(topics, candidates, parent_id, speculative, role,
                                   turn_index, allow_revival)
        e == EnfRecord(registered, active_topic_id, max_topics)
    IN /\ TopicConfigUnchanged
       /\ topics' = e.post
       /\ enfLog' = <<e>>
       /\ UNCHANGED <<turn_index, active_topic_id, focus_history>>

TrackerStep(st) ==
    /\ TopicConfigUnchanged
    /\ topics' = st.tp
    /\ active_topic_id' = st.act
    /\ enfLog' = st.log
    /\ UNCHANGED <<turn_index, focus_history>>

Here == [tp |-> topics, act |-> active_topic_id, log |-> <<>>]

reject_topic(topic, role) ==
    TrackerStep(RejectTopic(Here, topic, "no", role, turn_index, max_topics))

apply_user_corrections(signals) ==
    TrackerStep(CorrectionsLoop(Here, [i \in 1..Len(signals) |-> <<signals[i], "no">>],
                                turn_index, max_topics))

set_focus(topic) ==
    TrackerStep(SetFocus(Here, topic, turn_index, max_topics, allow_revival))

finalize_focus(suggested, fallback) ==
    TrackerStep(FinalizeFocus(Here, suggested, fallback, turn_index, max_topics, allow_revival))

\* ------------------------------------------------------------------
\* ObjectRegistry.  _objects is a function from object ids to nodes.
\* ------------------------------------------------------------------
regVars == <<reg_turn_index, objects, reg_steps>>

ObjectNode(label, status, turn) ==
    [label |-> label, status |-> status, evidence |-> <<>>, last_updated_turn |-> turn]

ObjectEvidence(turn, role, note) == [turn_index |-> turn, role |-> role, note |-> note]

\* dict assignment objs[id] = node
Put(objs, id, node) == [k \in DOMAIN objs \cup {id} |-> IF k = id THEN node ELSE objs[k]]

\* ObjectRegistry._normalize: strip, lower, "_empty_" for the empty name
NormalizeObject(raw) ==
    LET label == Strip(raw)
        object_id == [i \in 1..Len(label) |-> Lower(label[i])]
    IN IF object_id = <<>> THEN <<EmptyId, EmptyId>> ELSE <<object_id, label>>

\* mutant: a denied object is marked assumed like any other
RegisterAssumedOverwrite(objs, name, role, turn) ==
    LET n == NormalizeObject(name)
        id == n[1]
        node == IF id \in DOMAIN objs THEN objs[id] ELSE ObjectNode(n[2], ASSUMED, turn)
    IN Put(objs, id, [node EXCEPT !.status = ASSUMED,
                                  !.last_updated_turn = turn,
                                  !.evidence = Append(@, ObjectEvidence(turn, role, ""))])

\* mutant: a confirmed object stays confirmed
RegisterAssumedKeepConfirmed(objs, name, role, turn) ==
    LET n == NormalizeObject(name)
        id == n[1]
        node == IF id \in DOMAIN objs THEN objs[id] ELSE ObjectNode(n[2], ASSUMED, turn)
    IN IF node.status = DENIED
       THEN Put(objs, id, [node EXCEPT !.evidence = Append(@, ObjectEvidence(turn, role, "(assumed-but-denied)")),
                                       !.last_updated_turn = turn])
       ELSE Put(objs, id, [node EXCEPT !.status = IF @ = CONFIRMED THEN CONFIRMED ELSE ASSUMED,
                                       !.last_updated_turn = turn,
                                       !.evidence = Append(@, ObjectEvidence(turn, role, ""))])

RegisterAssumed(objs, name, role, turn) ==
    LET n == NormalizeObject(name)
        id == n[1]
        node == IF id \in DOMAIN objs THEN objs[id] ELSE ObjectNode(n[2], ASSUMED, turn)
    IN IF node.status = DENIED
       THEN Put(objs, id, [node EXCEPT !.evidence = Append(@, ObjectEvidence(turn, role, "(assumed-but-denied)")),
                                       !.last_updated_turn = turn])
       ELSE Put(objs, id, [node EXCEPT !.status = ASSUMED,
                                       !.last_updated_turn = turn,
                                       !.evidence = Append(@, ObjectEvidence(turn, role, ""))])

\* mutant: a denied object stays denied, as in register_assumed
ConfirmUnlessDenied(objs, name, role, turn) ==
    LET n == NormalizeObject(name)
        id == n[1]
        node == IF id \in DOMAIN objs
                THEN IF objs[id].status = DENIED
                     THEN [objs[id] EXCEPT !.last_updated_turn = turn]
                     ELSE [objs[id] EXCEPT !.status = CONFIRMED, !.last_updated_turn = turn]
                ELSE ObjectNode(n[2], CONFIRMED, turn)
    IN Put(objs, id, [node EXCEPT !.evidence = Append(@, ObjectEvidence(turn, role, ""))])

Confirm(objs, name, role, turn) ==
    LET n == NormalizeObject(name)
        id == n[1]
        node == IF id \in DOMAIN objs
                THEN [objs[id] EXCEPT !.status = CONFIRMED, !.last_updated_turn = turn]
                ELSE ObjectNode(n[2], CONFIRMED, turn)
    IN Put(objs, id, [node EXCEPT !.evidence = Append(@, ObjectEvidence(turn, role, ""))])

Deny(objs, name, role, turn) ==
    LET n == NormalizeObject(name)
        id == n[1]
        node == IF id \in DOMAIN objs
                THEN [objs[id] EXCEPT !.status = DENIED, !.last_updated_turn = turn]
                ELSE ObjectNode(n[2], DENIED, turn)
    IN Put(objs, id, [node EXCEPT !.evidence = Append(@, ObjectEvidence(turn, role, "(denied)"))])

ObjectId(name) == NormalizeObject(name)[1]

can_assume_exists(objs, name) ==
    ObjectId(name) \in DOMAIN objs /\ objs[ObjectId(name)].status = CONFIRMED

is_denied(objs, name) ==
    ObjectId(name) \in DOMAIN objs /\ objs[ObjectId(name)].status = DENIED

should_use_cautious_language(objs, name) ==
    ObjectId(name) \notin DOMAIN objs \/ objs[ObjectId(name)].status \in {ASSUMED, UNKNOWN}

RegistryInit ==
    /\ reg_turn_index = 0
    /\ objects = <<>>
    /\ reg_steps = 0

RegistryStep(objs) ==
    /\ reg_steps < MaxRegistrySteps
    /\ reg_steps' = reg_steps + 1
    /\ objects' = objs
    /\ UNCHANGED reg_turn_index

registry_on_turn_start(t) ==
    /\ reg_steps < MaxRegistrySteps
    /\ reg_steps' = reg_steps + 1
    /\ reg_turn_index' = t
    /\ UNCHANGED objects

register_assumed(name, role) == RegistryStep(RegisterAssumed(objects, name, role, reg_turn_index))

confirm(name, role) == RegistryStep(Confirm(objects, name, role, reg_turn_index))

deny(name, role) == RegistryStep(Deny(objects, name, role, reg_turn_index))

\* ------------------------------------------------------------------
\* DriftDetector.  An event keeps its type, turn and severity (in tenths);
\* the description text is diagnostic only and is left out.
\* ------------------------------------------------------------------
detVars == <<last_turn_checked, recent_questions, recent_speculation, det_events,
             det_calls, det_skipped, det_budget, det_log>>

DriftEvent(type, turn, severity) == [drift_type |-> type, turn_index |-> turn, severity |-> severity]

\* s[-n:]
LastN(s, n) == IF Len(s) <= n THEN s ELSE SubSeq(s, Len(s) - n + 1, Len(s))

\* mutant: every object event that is not a denied use counts as an overcommit
ObjectEventDriftAny(ev, turn) ==
    IF ev.type = "denied_but_used" THEN <<DriftEvent(DENIAL_IGNORED, turn, 9)>>
    ELSE <<DriftEvent(OBJECT_OVERCOMMIT, turn, 7)>>

\* the events of one object event
ObjectEventDrift(ev, turn) ==
    (IF ev.type = "assumed" THEN <<DriftEvent(OBJECT_OVERCOMMIT, turn, 7)>> ELSE <<>>) \o
    (IF ev.type = "denied_but_used" THEN <<DriftEvent(DENIAL_IGNORED, turn, 9)>> ELSE <<>>)

RECURSIVE ObjectDrift(_, _)
ObjectDrift(object_events, turn) ==
    IF object_events = <<>> THEN <<>>
    ELSE ObjectEventDrift(Head(object_events), turn) \o ObjectDrift(Tail(object_events), turn)

\* mutant: the user's explicit switch is not excluded
TopicShiftRuleAlways(turn, user_intent, topic_before, topic_after) ==
    IF topic_before # None /\ topic_after # None /\ topic_before # topic_after
    THEN <<DriftEvent(TOPIC_SHIFT, turn, 6)>> ELSE <<>>

\* rule 1: topic jump without an explicit switch by the user
TopicShiftRule(turn, user_intent, topic_before, topic_after) ==
    IF topic_before # None /\ topic_after # None /\ topic_before # topic_after
       /\ ~user_intent.explicit_topic_change
    THEN <<DriftEvent(TOPIC_SHIFT, turn, 6)>> ELSE <<>>

\* rule 3: the speculation window and the unrequested speculation
PushSpeculation(speculation, turn, ai_intent) ==
    IF ai_intent.speculation THEN LastN(Append(speculation, turn), 3) ELSE speculation

AssumptionLeapRule(turn, user_intent, ai_intent) ==
    IF ai_intent.speculation /\ ~user_intent.requested_speculation
    THEN <<DriftEvent(ASSUMPTION_LEAP, turn, 6)>> ELSE <<>>

\* rule 4: the question window and the question loop
\* mutant: the question window keeps six turns
PushQuestionSix(questions, turn, ai_intent) ==
    IF ai_intent.is_question THEN LastN(Append(questions, turn), 6) ELSE questions

PushQuestion(questions, turn, ai_intent) ==
    IF ai_intent.is_question THEN LastN(Append(questions, turn), 5) ELSE questions

\* mutant: the loop fires one question early
QuestionLoopRuleEarly(questions, turn, user_intent, ai_intent) ==
    IF ai_intent.is_question /\ Len(questions) >= 2 /\ ~user_intent.explicit_topic_change
    THEN <<DriftEvent(QUESTION_LOOP, turn, 5)>> ELSE <<>>

QuestionLoopRule(questions, turn, user_intent, ai_intent) ==
    IF ai_intent.is_question /\ Len(questions) >= 3 /\ ~user_intent.explicit_topic_change
    THEN <<DriftEvent(QUESTION_LOOP, turn, 5)>> ELSE <<>>

\* mutant: the chain needs the current turn to be speculative
SpeculationChainRuleCurrent(speculation, turn, ai_intent) ==
    IF Len(speculation) >= 2 /\ ai_intent.followup_question /\ ai_intent.speculation
    THEN <<DriftEvent(SPECULATION_CHAIN, turn, 8)>> ELSE <<>>

\* mutant: the chain is reported below the critical severity
SpeculationChainRuleMild(speculation, turn, ai_intent) ==
    IF Len(speculation) >= 2 /\ ai_intent.followup_question
    THEN <<DriftEvent(SPECULATION_CHAIN, turn, 7)>> ELSE <<>>

\* rule 5: speculation chained across turns
SpeculationChainRule(speculation, turn, ai_intent) ==
    IF Len(speculation) >= 2 /\ ai_intent.followup_question
    THEN <<DriftEvent(SPECULATION_CHAIN, turn, 8)>> ELSE <<>>

\* mutant: only strictly older turns are skipped
AlreadyCheckedStrict(turn, last) == turn < last

AlreadyChecked(turn, last) == turn <= last

\* d = [last, questions, speculation]; returns the new detector state and the events
Detect(d, turn, user_intent, ai_intent, topic_before, topic_after, object_events) ==
    IF AlreadyChecked(turn, d.last) THEN [d |-> d, events |-> <<>>]
    ELSE LET spec == PushSpeculation(d.speculation, turn, ai_intent)
             quest == PushQuestion(d.questions, turn, ai_intent)
         IN [d |-> [last |-> turn, questions |-> quest, speculation |-> spec],
             events |-> TopicShiftRule(turn, user_intent, topic_before, topic_after)
                        \o ObjectDrift(object_events, turn)
                        \o AssumptionLeapRule(turn, user_intent, ai_intent)
                        \o QuestionLoopRule(quest, turn, user_intent, ai_intent)
                        \o SpeculationChainRule(spec, turn, ai_intent)]

has_critical_drift(events) == \E i \in 1..Len(events) : events[i].severity >= 8

Detector == [last |-> last_turn_checked, questions |-> recent_questions,
             speculation |-> recent_speculation]

DetectorInit ==
    /\ last_turn_checked = -1
    /\ recent_questions = <<>>
    /\ recent_speculation = <<>>
    /\ det_events = <<>>
    /\ det_calls = 0
    /\ det_skipped = FALSE
    /\ det_log = <<>>

detect(turn, user_intent, ai_intent, topic_before, topic_after, object_events) ==
    LET r == Detect(Detector, turn, user_intent, ai_intent, topic_before, topic_after, object_events)
    IN /\ det_calls < det_budget
       /\ det_calls' = IF turn <= last_turn_checked THEN det_calls ELSE det_calls + 1
       /\ det_skipped' = (turn <= last_turn_checked)
       /\ last_turn_checked' = r.d.last
       /\ recent_questions' = r.d.questions
       /\ recent_speculation' = r.d.speculation
       /\ det_events' = r.events
       /\ det_log' = IF turn <= last_turn_checked THEN det_log
                     ELSE Append(det_log, [turn_index |-> turn,
                                           is_question |-> ai_intent.is_question,
                                           speculation |-> ai_intent.speculation])
       /\ UNCHANGED det_budget

\* ------------------------------------------------------------------
\* TurnController.decide: the per-event pass, then the overrides
\* ------------------------------------------------------------------
ctlVars == <<drift_events, instruction>>

TurnInstruction(mode, spec, quest, tokens, notes) ==
    [mode |-> mode, allow_speculation |-> spec, allow_questions |-> quest,
     max_tokens |-> tokens, notes |-> notes]

Min(a, b) == IF a <= b THEN a ELSE b

DefaultTokens == 300
RepairTokens == 150
QuestionLoopTokens == 180
ChainTokens == 200
CriticalTokens == 150
ManyEventsTokens == 120
CriticalSeverity == 8
ManyEvents == 3

ApplyEvent(ins, ev) ==
    LET a == IF ev.drift_type = OBJECT_OVERCOMMIT
             THEN [ins EXCEPT !.allow_speculation = FALSE,
                              !.notes = Append(@, "Disable speculation due to object overcommit")]
             ELSE ins
        b == IF ev.drift_type = ASSUMPTION_LEAP
             THEN [a EXCEPT !.allow_speculation = FALSE,
                            !.notes = Append(@, "Prevent assumption leap")]
             ELSE a
        c == IF ev.drift_type = DENIAL_IGNORED
             THEN [b EXCEPT !.mode = REPAIR, !.allow_questions = FALSE,
                            !.allow_speculation = FALSE, !.max_tokens = RepairTokens,
                            !.notes = Append(@, "Repair mode due to denial ignored")]
             ELSE b
        d == IF ev.drift_type = TOPIC_SHIFT
             THEN [c EXCEPT !.mode = REFOCUS, !.notes = Append(@, "Refocus conversation topic")]
             ELSE c
        e == IF ev.drift_type = QUESTION_LOOP
             THEN [d EXCEPT !.allow_questions = FALSE, !.max_tokens = QuestionLoopTokens,
                            !.notes = Append(@, "Question loop detected, disable questions")]
             ELSE d
    IN IF ev.drift_type = SPECULATION_CHAIN
       THEN [e EXCEPT !.mode = FACT_ONLY, !.allow_speculation = FALSE,
                      !.allow_questions = FALSE, !.max_tokens = ChainTokens,
                      !.notes = Append(@, "Speculation chain stopped")]
       ELSE e

\* mutant: the events are applied last to first
RECURSIVE ApplyEventsReversed(_, _)
ApplyEventsReversed(ins, events) ==
    IF events = <<>> THEN ins ELSE ApplyEvent(ApplyEventsReversed(ins, Tail(events)), Head(events))

RECURSIVE ApplyEvents(_, _)
ApplyEvents(ins, events) ==
    IF events = <<>> THEN ins ELSE ApplyEvents(ApplyEvent(ins, Head(events)), Tail(events))

\* mutant: the critical threshold is exclusive
CriticalOverrideStrict(ins, events) ==
    IF \E i \in 1..Len(events) : events[i].severity > CriticalSeverity
    THEN [ins EXCEPT !.mode = REPAIR, !.allow_speculation = FALSE, !.allow_questions = FALSE,
                     !.max_tokens = Min(@, CriticalTokens),
                     !.notes = Append(@, "Critical drift override applied")]
    ELSE ins

CriticalOverride(ins, events) ==
    IF \E i \in 1..Len(events) : events[i].severity >= CriticalSeverity
    THEN [ins EXCEPT !.mode = REPAIR, !.allow_speculation = FALSE, !.allow_questions = FALSE,
                     !.max_tokens = Min(@, CriticalTokens),
                     !.notes = Append(@, "Critical drift override applied")]
    ELSE ins

ShortResponse(ins, events) ==
    IF Len(events) >= ManyEvents
    THEN [ins EXCEPT !.max_tokens = Min(@, ManyEventsTokens),
                     !.notes = Append(@, "Multiple drift events, enforce short response")]
    ELSE ins

Decide(events) ==
    ShortResponse(
        CriticalOverride(
            ApplyEvents(TurnInstruction(NORMAL, TRUE, TRUE, DefaultTokens, <<>>), events),
            events),
        events)

DecideEvents == [drift_type : DriftTypes, turn_index : {0}, severity : Severities]

EventLists(n) == UNION { [1..k -> DecideEvents] : k \in 0..n }

NoInstruction == [mode |-> "none"]

decide ==
    /\ instruction = NoInstruction
    /\ instruction' = Decide(drift_events)
    /\ UNCHANGED drift_events

\* ------------------------------------------------------------------
\* query helpers of TopicTracker and ObjectRegistry.  A lookup returns the
\* dict as it leaves it and the node found, as a sequence of at most one node.
\* ------------------------------------------------------------------
qryVars == <<answer>>

NoAnswer == [query |-> "none"]

Answer(query, name, value) == [query |-> query, name |-> name, value |-> value]

\* self._topics.get(topic_id)
TopicsGet(tp, id) == [tp |-> tp, node |-> IF id \in Ids(tp) THEN <<Node(tp, id)>> ELSE <<>>]

IsTopicConfirmed(tp, raw) ==
    LET g == TopicsGet(tp, NormalizeTopic(raw)[1])
    IN [tp |-> g.tp, value |-> g.node # <<>> /\ g.node[1].status \in {ACTIVE, AVAILABLE}]

ShouldAvoidAssertiveQuestions(tp, act) ==
    IF act = None THEN [tp |-> tp, value |-> FALSE]
    ELSE LET g == TopicsGet(tp, act)
         IN [tp |-> g.tp, value |-> g.node # <<>> /\ g.node[1].status = SPECULATIVE]

TrackerQuery(r, query, name) ==
    /\ TopicConfigUnchanged
    /\ topics' = r.tp
    /\ answer' = Answer(query, name, r.value)
    /\ enfLog' = <<>>
    /\ UNCHANGED <<turn_index, active_topic_id, focus_history>>

is_topic_confirmed(topic) ==
    TrackerQuery(IsTopicConfirmed(topics, topic), "is_topic_confirmed", topic)

should_avoid_assertive_questions ==
    TrackerQuery(ShouldAvoidAssertiveQuestions(topics, active_topic_id),
                 "should_avoid_assertive_questions", None)

\* mutant: a miss enters an UNKNOWN node, as a defaulting dict would
RegistryGetInserting(objs, name, turn) ==
    LET n == NormalizeObject(name)
        o == IF n[1] \in DOMAIN objs THEN objs ELSE Put(objs, n[1], ObjectNode(n[2], UNKNOWN, turn))
    IN [objs |-> o, node |-> <<o[n[1]]>>]

\* ObjectRegistry.get
RegistryGet(objs, name, turn) ==
    LET id == ObjectId(name)
    IN [objs |-> objs, node |-> IF id \in DOMAIN objs THEN <<objs[id]>> ELSE <<>>]

RegistryQuery(g, query, name, value) ==
    /\ reg_steps < MaxRegistrySteps
    /\ reg_steps' = reg_steps + 1
    /\ objects' = g.objs
    /\ answer' = Answer(query, name, value)
    /\ UNCHANGED reg_turn_index

query_can_assume_exists(name) ==
    LET g == RegistryGet(objects, name, reg_turn_index)
    IN RegistryQuery(g, "can_assume_exists", name, can_assume_exists(g.objs, name))

query_is_denied(name) ==
    LET g == RegistryGet(objects, name, reg_turn_index)
    IN RegistryQuery(g, "is_denied", name, is_denied(g.objs, name))

query_should_use_cautious_language(name) ==
    LET g == RegistryGet(objects, name, reg_turn_index)
    IN RegistryQuery(g, "should_use_cautious_language", name,
                     should_use_cautious_language(g.objs, name))

\* ------------------------------------------------------------------
\* PolicyGate.  Scores are in hundredths; an optional score is None or a
\* one-element sequence.  A key missing from the policy dict is its default
\* (block_on_drift False, incident_on_drift True, no threshold).  A drift
\* status is only ever compared with "drifting"; None is the string "".
\* ------------------------------------------------------------------
gateVars == <<gate_policy, gate_request, gate_decision>>

Thresholds == { None, <<0>>, <<75>> }
Policies == [block_on_drift : BOOLEAN, incident_on_drift : BOOLEAN,
             max_allowed_drift_score : Thresholds]
DriftStatuses == { "", "stable", "drifting" }
DriftScores == { None, <<0>>, <<74>>, <<75>>, <<90>> }
MemoryIds == { <<>>, <<"m1">> }

PolicyDecision(allowed, decision, reason, incident_flag) ==
    [allowed |-> allowed, decision |-> decision, reason |-> reason,
     incident_flag |-> incident_flag]

\* mutant: a score equal to the threshold is blocked too
EvaluateInclusive(policy, drift_status, drift_score, injected_memory_ids) ==
    IF policy.block_on_drift /\ drift_status = "drifting"
    THEN PolicyDecision(FALSE, "BLOCK", "Drift status flagged as 'drifting'",
                        policy.incident_on_drift)
    ELSE IF policy.max_allowed_drift_score # None /\ drift_score = None
    THEN PolicyDecision(FALSE, "BLOCK", "Drift score missing while threshold is enforced", TRUE)
    ELSE IF policy.max_allowed_drift_score # None
            /\ drift_score[1] <= policy.max_allowed_drift_score[1]
    THEN PolicyDecision(FALSE, "BLOCK", "Drift score below threshold", TRUE)
    ELSE IF injected_memory_ids = <<>>
    THEN PolicyDecision(TRUE, "ALLOW", "No memory injected; policy allows continuation", FALSE)
    ELSE PolicyDecision(TRUE, "ALLOW", "All policy checks passed", FALSE)

Evaluate(policy, drift_status, drift_score, injected_memory_ids) ==
    IF policy.block_on_drift /\ drift_status = "drifting"
    THEN PolicyDecision(FALSE, "BLOCK", "Drift status flagged as 'drifting'",
                        policy.incident_on_drift)
    ELSE IF policy.max_allowed_drift_score # None /\ drift_score = None
    THEN PolicyDecision(FALSE, "BLOCK", "Drift score missing while threshold is enforced", TRUE)
    ELSE IF policy.max_allowed_drift_score # None
            /\ drift_score[1] < policy.max_allowed_drift_score[1]
    THEN PolicyDecision(FALSE, "BLOCK", "Drift score below threshold", TRUE)
    ELSE IF injected_memory_ids = <<>>
    THEN PolicyDecision(TRUE, "ALLOW", "No memory injected; policy allows continuation", FALSE)
    ELSE PolicyDecision(TRUE, "ALLOW", "All policy checks passed", FALSE)

NoRequest == [drift_status |-> "none"]
NoDecision == [decision |-> "none"]

GateInit ==
    /\ gate_policy \in Policies
    /\ gate_request = NoRequest
    /\ gate_decision = NoDecision

evaluate(drift_status, drift_score, injected_memory_ids) ==
    /\ gate_request' = [drift_status |-> drift_status, drift_score |-> drift_score,
                         injected_memory_ids |-> injected_memory_ids]
    /\ gate_decision' = Evaluate(gate_policy, drift_status, drift_score, injected_memory_ids)
    /\ UNCHANGED gate_policy

\* ------------------------------------------------------------------
\* specifications
\* ------------------------------------------------------------------
vars == <<topicVars, regVars, detVars, ctlVars, qryVars, gateVars>>

TopicIdle == TopicInit /\ max_topics = 2 /\ budget = 0
RegistryIdle == RegistryInit
DetectorIdle == DetectorInit /\ det_budget = 0
ControllerIdle == drift_events = <<>> /\ instruction = NoInstruction
QueryIdle == answer = NoAnswer
GateIdle ==
    /\ gate_policy = [block_on_drift |-> FALSE, incident_on_drift |-> TRUE,
                       max_allowed_drift_score |-> None]
    /\ gate_request = NoRequest
    /\ gate_decision = NoDecision

\* TopicTracker, every operation with the full input sets
Init == TopicInit /\ max_topics = 2 /\ budget = MaxSteps /\ RegistryIdle /\ DetectorIdle /\ ControllerIdle /\ QueryIdle /\ GateIdle

Next ==
    /\ UNCHANGED <<regVars, detVars, ctlVars, qryVars, gateVars>>
    /\ \/ \E t \in (turn_index + 1)..(turn_index + 2) : on_turn_start(t)
       \/ \E role \in Roles, c \in CandidateLists, sp \in BOOLEAN, h \in ParentHints :
             register_candidates(role, c, sp, h)
       \/ \E x \in RawTopics, role \in Roles : reject_topic(x, role)
       \/ \E sig \in SignalLists : apply_user_corrections(sig)
       \/ \E x \in RawTopics : set_focus(x)
       \/ \E x \in Suggestions, fb \in BOOLEAN : finalize_focus(x, fb)

Spec == Init /\ [][Next]_vars

\* TopicTracker, focus and rejection calls
InitFocus == TopicInit /\ max_topics \in {2, 3} /\ budget = MaxFocusSteps /\ RegistryIdle /\ DetectorIdle /\ ControllerIdle /\ QueryIdle /\ GateIdle

NextFocus ==
    /\ UNCHANGED <<regVars, detVars, ctlVars, qryVars, gateVars>>
    /\ \/ \E x \in RawTopics, role \in Roles : reject_topic(x, role)
       \/ \E x \in RawTopics : set_focus(x)
       \/ \E fb \in BOOLEAN : finalize_focus(None, fb)

SpecFocus == InitFocus /\ [][NextFocus]_vars

\* TopicTracker where only finalize_focus sets the focus
InitFinalize == TopicInit /\ max_topics = 2 /\ ~allow_revival /\ budget = MaxFinalizeSteps /\ RegistryIdle /\ DetectorIdle /\ ControllerIdle /\ QueryIdle /\ GateIdle

NextFinalize ==
    /\ UNCHANGED <<regVars, detVars, ctlVars, qryVars, gateVars>>
    /\ \/ on_turn_start(turn_index + 1)
       \/ \E x \in RawTopics, role \in Roles, sp \in BOOLEAN : register_candidates(role, <<x>>, sp, None)
       \/ \E x \in RawTopics, role \in Roles : reject_topic(x, role)
       \/ \E sug \in Suggestions, fb \in BOOLEAN : finalize_focus(sug, fb)

SpecFinalize == InitFinalize /\ [][NextFinalize]_vars

\* TopicTracker, one plain candidate per registration, turn by turn
InitEvict == TopicInit /\ max_topics \in {1, 2} /\ ~allow_revival /\ budget = MaxEvictSteps /\ RegistryIdle /\ DetectorIdle /\ ControllerIdle /\ QueryIdle /\ GateIdle

NextEvict ==
    /\ UNCHANGED <<regVars, detVars, ctlVars, qryVars, gateVars>>
    /\ \/ on_turn_start(turn_index + 1)
       \/ \E c \in CandidateLists, role \in Roles : register_candidates(role, c, FALSE, None)
       \/ \E x \in RawTopics, role \in Roles : reject_topic(x, role)
       \/ \E x \in RawTopics : set_focus(x)

SpecEvict == InitEvict /\ [][NextEvict]_vars

\* ObjectRegistry
InitRegistry == TopicIdle /\ RegistryInit /\ DetectorIdle /\ ControllerIdle /\ QueryIdle /\ GateIdle

NextRegistry ==
    /\ UNCHANGED <<topicVars, detVars, ctlVars, qryVars, gateVars>>
    /\ \/ \E t \in (reg_turn_index + 1)..(reg_turn_index + 2) : registry_on_turn_start(t)
       \/ \E x \in RawObjects, role \in Roles : register_assumed(x, role)
       \/ \E x \in RawObjects, role \in Roles : confirm(x, role)
       \/ \E x \in RawObjects, role \in Roles : deny(x, role)

SpecRegistry == InitRegistry /\ [][NextRegistry]_vars

\* ObjectRegistry where the user confirms and denies and the assistant assumes
InitAssume == TopicIdle /\ RegistryInit /\ DetectorIdle /\ ControllerIdle /\ QueryIdle /\ GateIdle

NextAssume ==
    /\ UNCHANGED <<topicVars, detVars, ctlVars, qryVars, gateVars>>
    /\ \/ registry_on_turn_start(reg_turn_index + 1)
       \/ \E x \in RawObjects : register_assumed(x, "ai")
       \/ \E x \in RawObjects : confirm(x, "user")
       \/ \E x \in RawObjects : deny(x, "user")

SpecAssume == InitAssume /\ [][NextAssume]_vars

\* DriftDetector, long runs: the assistant's question and speculation flags only
QuietUser == [explicit_topic_change |-> FALSE, requested_speculation |-> TRUE]

InitWindows == TopicIdle /\ RegistryIdle /\ DetectorInit /\ det_budget = MaxWindowCalls
               /\ ControllerIdle /\ QueryIdle /\ GateIdle

NextWindows ==
    /\ UNCHANGED <<topicVars, regVars, ctlVars, qryVars, gateVars>>
    /\ \E t \in (last_turn_checked - 1)..(last_turn_checked + 1), q \in BOOLEAN, sp \in BOOLEAN :
          detect(t, QuietUser, [speculation |-> sp, is_question |-> q, followup_question |-> FALSE],
                 None, None, <<>>)

SpecWindows == InitWindows /\ [][NextWindows]_vars

\* DriftDetector, full inputs
DetectTurns == last_turn_checked..(last_turn_checked + 2)

InitDrift == TopicIdle /\ RegistryIdle /\ DetectorInit /\ det_budget = MaxDetectCalls /\ ControllerIdle
             /\ QueryIdle /\ GateIdle

NextDrift ==
    /\ UNCHANGED <<topicVars, regVars, ctlVars, qryVars, gateVars>>
    /\ \E t \in last_turn_checked..(last_turn_checked + 1), ui \in UserIntents, ai \in AiIntents,
          tp \in TopicPairs, oe \in ObjectEventLists :
          detect(t, ui, ai, tp[1], tp[2], oe)

SpecDrift == InitDrift /\ [][NextDrift]_vars

\* DriftDetector, intent flags only
InitQuestions == TopicIdle /\ RegistryIdle /\ DetectorInit /\ det_budget = MaxQuestionCalls
                 /\ ControllerIdle /\ QueryIdle /\ GateIdle

NextQuestions ==
    /\ UNCHANGED <<topicVars, regVars, ctlVars, qryVars, gateVars>>
    /\ \E t \in DetectTurns, ui \in UserIntents, ai \in AiIntents :
          detect(t, ui, ai, None, None, <<>>)

SpecQuestions == InitQuestions /\ [][NextQuestions]_vars

\* TurnController.decide on any event list
InitDecide == TopicIdle /\ RegistryIdle /\ DetectorIdle
              /\ drift_events \in EventLists(MaxEvents) /\ instruction = NoInstruction
              /\ QueryIdle /\ GateIdle

NextDecide == decide /\ UNCHANGED <<topicVars, regVars, detVars, qryVars, gateVars>>

SpecDecide == InitDecide /\ [][NextDecide]_vars

\* TopicTracker and ObjectRegistry, mutated and queried
InitQuery == TopicInit /\ max_topics = 2 /\ ~allow_revival /\ budget = MaxQuerySteps /\ RegistryInit
             /\ DetectorIdle /\ ControllerIdle /\ QueryIdle /\ GateIdle

NextQuery ==
    /\ UNCHANGED <<detVars, ctlVars, gateVars>>
    /\ steps + reg_steps < MaxQuerySteps
    /\ \/ \E x \in RawTopics, role \in Roles : reject_topic(x, role) /\ UNCHANGED <<regVars, qryVars>>
       \/ \E x \in RawTopics : set_focus(x) /\ UNCHANGED <<regVars, qryVars>>
       \/ \E x \in RawTopics, role \in Roles :
             register_candidates(role, <<x>>, TRUE, None) /\ UNCHANGED <<regVars, qryVars>>
       \/ \E x \in RawTopics : is_topic_confirmed(x) /\ UNCHANGED regVars
       \/ should_avoid_assertive_questions /\ UNCHANGED regVars
       \/ \E x \in RawObjects, role \in Roles : register_assumed(x, role) /\ UNCHANGED <<topicVars, qryVars>>
       \/ \E x \in RawObjects, role \in Roles : confirm(x, role) /\ UNCHANGED <<topicVars, qryVars>>
       \/ \E x \in RawObjects, role \in Roles : deny(x, role) /\ UNCHANGED <<topicVars, qryVars>>
       \/ \E x \in RawObjects : query_can_assume_exists(x) /\ UNCHANGED topicVars
       \/ \E x \in RawObjects : query_is_denied(x) /\ UNCHANGED topicVars
       \/ \E x \in RawObjects : query_should_use_cautious_language(x) /\ UNCHANGED topicVars

SpecQuery == InitQuery /\ [][NextQuery]_vars

\* PolicyGate.evaluate under any policy
InitGate == TopicIdle /\ RegistryIdle /\ DetectorIdle /\ ControllerIdle /\ QueryIdle /\ GateInit

NextGate ==
    /\ UNCHANGED <<topicVars, regVars, detVars, ctlVars, qryVars>>
    /\ \E st \in DriftStatuses, sc \in DriftScores, ids \in MemoryIds : evaluate(st, sc, ids)

SpecGate == InitGate /\ [][NextGate]_vars

\* ------------------------------------------------------------------
\* properties
\* ------------------------------------------------------------------
StatusOf(tp, id) == Node(tp, id).status

HasNote(node, note) == \E i \in 1..Len(node.evidence) : node.evidence[i].note = note

\* unprotected at an enforcement call: neither the focus nor rejected
Unprotected(e) ==
    {e.pre[i].topic_id : i \in {j \in 1..Len(e.pre) :
        e.pre[j].topic_id # e.act /\ e.pre[j].status # REJECTED}}

Removed(e) == Ids(e.pre) \ Ids(e.post)

TouchedAt(e, id) == Node(e.pre, id).last_touched_turn

CountOf(events, type) == Cardinality({i \in 1..Len(events) : events[i].drift_type = type})

\* C1: at most one topic node has status ACTIVE, in every reachable state.
C1_AtMostOneActive ==
    Cardinality({i \in 1..Len(topics) : topics[i].status = ACTIVE}) <= 1

\* C2: with allow_revival false, a REJECTED topic stays a live REJECTED node
\* over every tracker operation, and is not the focus afterwards.
C2_StickyRejection ==
    [][\A i \in 1..Len(topics) :
          (~allow_revival /\ topics[i].status = REJECTED) =>
             /\ topics[i].topic_id \in Ids(topics')
             /\ StatusOf(topics', topics[i].topic_id) = REJECTED
             /\ active_topic_id' # topics[i].topic_id]_vars

C2_Witness ==
    /\ ~allow_revival
    /\ \E i \in 1..Len(topics) :
          /\ topics[i].status = REJECTED
          /\ HasNote(topics[i], "(rejected-topic-mentioned)")

\* C3: a DENIED object stays DENIED over every registry step that is not a
\* confirm of that object (register_assumed, on_turn_start, deny).
C3_StickyDenial ==
    [][\A id \in DOMAIN objects :
          objects[id].status = DENIED =>
             \/ id \in DOMAIN objects' /\ objects'[id].status = DENIED
             \/ \E x \in RawObjects, role \in Roles : ObjectId(x) = id /\ confirm(x, role)]_vars

C3_Witness ==
    \E id \in DOMAIN objects :
        /\ objects[id].status = DENIED
        /\ \E i \in 1..Len(objects[id].evidence) :
              objects[id].evidence[i].note = "(assumed-but-denied)"

\* C4: a detect call for a turn index at or below the last processed one returns
\* no event and leaves the detector unchanged, whatever else it is given.
C4_IdempotentDetect ==
    \A t \in (last_turn_checked - 2)..last_turn_checked, ui \in UserIntents, ai \in AiIntents,
       tp \in TopicPairs, oe \in ObjectEventLists :
       Detect(Detector, t, ui, ai, tp[1], tp[2], oe) = [d |-> Detector, events |-> <<>>]

C4_Witness ==
    /\ det_skipped
    /\ last_turn_checked >= 0
    /\ det_events = <<>>
    /\ recent_questions # <<>>
    /\ recent_speculation # <<>>

\* C5: an event list holding an event of severity >= 0.8 is decided as REPAIR,
\* no speculation, no questions, at most 150 tokens.
C5_CriticalOverride ==
    (instruction # NoInstruction /\ \E i \in 1..Len(drift_events) : drift_events[i].severity >= 8) =>
        /\ instruction.mode = REPAIR
        /\ ~instruction.allow_speculation
        /\ ~instruction.allow_questions
        /\ instruction.max_tokens <= 150

C5_Witness ==
    /\ instruction # NoInstruction
    /\ Len(drift_events) = 2
    /\ drift_events[1].drift_type = OBJECT_OVERCOMMIT /\ drift_events[1].severity = 8
    /\ drift_events[2].drift_type = SPECULATION_CHAIN /\ drift_events[2].severity = 5
    /\ instruction.mode = REPAIR

\* C6: an enforcement call removes neither the focus nor a REJECTED topic.
C6_EvictionProtection ==
    \A k \in 1..Len(enfLog) : \A i \in 1..Len(enfLog[k].pre) :
        (enfLog[k].pre[i].topic_id = enfLog[k].act \/ enfLog[k].pre[i].status = REJECTED)
            => enfLog[k].pre[i].topic_id \in Ids(enfLog[k].post)

C6_Witness ==
    \E k \in 1..Len(enfLog) :
        /\ Len(enfLog[k].post) < Len(enfLog[k].pre)
        /\ enfLog[k].act \in Ids(enfLog[k].pre)
        /\ \E i \in 1..Len(enfLog[k].pre) : enfLog[k].pre[i].status = REJECTED

\* C7: an enforcement call removes min(count - max_topics, unprotected) nodes,
\* all unprotected and none touched later than an unprotected survivor; with
\* max_topics = 2 and three unprotected topics touched on three successive
\* turns, the first one alone is removed.
C7_EvictionOrder ==
    \A k \in 1..Len(enfLog) :
        LET e == enfLog[k]
        IN /\ Ids(e.post) \subseteq Ids(e.pre)
           /\ Removed(e) \subseteq Unprotected(e)
           /\ Cardinality(Removed(e)) =
                 IF Len(e.pre) > max_topics
                 THEN Min(Len(e.pre) - max_topics, Cardinality(Unprotected(e)))
                 ELSE 0
           /\ \A v \in Removed(e), u \in Unprotected(e) \ Removed(e) :
                 TouchedAt(e, v) <= TouchedAt(e, u)
           /\ (/\ max_topics = 2 /\ Len(e.pre) = 3 /\ Cardinality(Unprotected(e)) = 3
               /\ e.pre[1].last_touched_turn + 1 = e.pre[2].last_touched_turn
               /\ e.pre[2].last_touched_turn + 1 = e.pre[3].last_touched_turn)
              => Removed(e) = {e.pre[1].topic_id}

C7_Witness ==
    /\ max_topics = 2
    /\ Len(enfLog) = 1
    /\ Len(enfLog[1].pre) = 3
    /\ Cardinality(Unprotected(enfLog[1])) = 3
    /\ enfLog[1].pre[1].last_touched_turn = 0
    /\ enfLog[1].pre[2].last_touched_turn = 1
    /\ enfLog[1].pre[3].last_touched_turn = 2
    /\ Ids(topics) = {enfLog[1].pre[2].topic_id, enfLog[1].pre[3].topic_id}

\* C8: after every mutation the live topics number at most max_topics, or
\* every live topic is the focus or REJECTED.
C8_SoftBound ==
    \/ Len(topics) <= max_topics
    \/ \A i \in 1..Len(topics) :
          topics[i].topic_id = active_topic_id \/ topics[i].status = REJECTED

C10_TopicShift ==
    \A ui \in UserIntents, ai \in AiIntents, tp \in TopicPairs, oe \in ObjectEventLists :
       LET t == last_turn_checked + 1
           tb == tp[1]
           ta == tp[2]
           r == Detect(Detector, t, ui, ai, tb, ta, oe)
           shifted == tb # None /\ ta # None /\ tb # ta /\ ~ui.explicit_topic_change
       IN /\ CountOf(r.events, TOPIC_SHIFT) = (IF shifted THEN 1 ELSE 0)
          /\ \A i \in 1..Len(r.events) :
                r.events[i].drift_type = TOPIC_SHIFT => r.events[i].severity = 6
          /\ (Len(r.events) = 1 /\ shifted) =>
                LET ins == Decide(r.events)
                IN /\ ins.mode = REFOCUS
                   /\ ins.allow_speculation
                   /\ ins.allow_questions
                   /\ ins.max_tokens = 300

C10_Witness ==
    /\ ~det_skipped
    /\ Len(det_events) = 1
    /\ det_events[1].drift_type = TOPIC_SHIFT
    /\ Decide(det_events).mode = REFOCUS

\* C11: a processed detect call emits, in input order and after any TOPIC_SHIFT,
\* one OBJECT_OVERCOMMIT (0.7) per "assumed" object event and one DENIAL_IGNORED
\* (0.9) per "denied_but_used" one, and nothing for other object events; a turn
\* whose only signal is one denied_but_used event gives that single event, and
\* decide gives REPAIR, no speculation, no questions, 150 tokens.
C11_ObjectEvents ==
    \A ui \in UserIntents, ai \in AiIntents, tp \in TopicPairs, oe \in ObjectEventLists :
       LET t == last_turn_checked + 1
           r == Detect(Detector, t, ui, ai, tp[1], tp[2], oe)
           emitted == SelectSeq(r.events,
                                LAMBDA e : e.drift_type \in {OBJECT_OVERCOMMIT, DENIAL_IGNORED})
           kinds == SelectSeq(oe, LAMBDA ev : ev.type \in {"assumed", "denied_but_used"})
       IN /\ Len(emitted) = Len(kinds)
          /\ \A i \in 1..Len(emitted) :
                emitted[i] = IF kinds[i].type = "assumed"
                             THEN DriftEvent(OBJECT_OVERCOMMIT, t, 7)
                             ELSE DriftEvent(DENIAL_IGNORED, t, 9)
          /\ \A i \in 1..Len(r.events), j \in 1..Len(r.events) :
                (r.events[i].drift_type = TOPIC_SHIFT
                 /\ r.events[j].drift_type \in {OBJECT_OVERCOMMIT, DENIAL_IGNORED}) => i < j
          /\ (oe = <<ObjectEvent("denied_but_used")>> /\ Len(r.events) = 1) =>
                /\ r.events = <<DriftEvent(DENIAL_IGNORED, t, 9)>>
                /\ Decide(r.events).mode = REPAIR
                /\ ~Decide(r.events).allow_speculation
                /\ ~Decide(r.events).allow_questions
                /\ Decide(r.events).max_tokens = 150

C11_Witness ==
    /\ ~det_skipped
    /\ Len(det_events) >= 3
    /\ det_events[1].drift_type = TOPIC_SHIFT
    /\ det_events[2] = DriftEvent(DENIAL_IGNORED, last_turn_checked, 9)
    /\ det_events[3] = DriftEvent(OBJECT_OVERCOMMIT, last_turn_checked, 7)

\* C12: after confirm(name) the object is CONFIRMED whatever it was before
\* (absent, ASSUMED, CONFIRMED, DENIED); can_assume_exists is true and
\* is_denied is false.
C12_ConfirmOverrides ==
    \A x \in RawObjects, role \in Roles :
       LET o == Confirm(objects, x, role, reg_turn_index)
       IN /\ ObjectId(x) \in DOMAIN o
          /\ o[ObjectId(x)].status = CONFIRMED
          /\ can_assume_exists(o, x)
          /\ ~is_denied(o, x)

C12_Witness ==
    \E id \in DOMAIN objects :
        /\ objects[id].status = CONFIRMED
        /\ \E i \in 1..Len(objects[id].evidence) : objects[id].evidence[i].note = "(denied)"

\* the caps of the rules that fire on an event list
Caps(events) ==
    {300}
    \cup (IF CountOf(events, DENIAL_IGNORED) > 0 THEN {150} ELSE {})
    \cup (IF CountOf(events, QUESTION_LOOP) > 0 THEN {180} ELSE {})
    \cup (IF CountOf(events, SPECULATION_CHAIN) > 0 THEN {200} ELSE {})
    \cup (IF \E i \in 1..Len(events) : events[i].severity >= 8 THEN {150} ELSE {})
    \cup (IF Len(events) >= 3 THEN {120} ELSE {})

\* C14: the length budget returned by decide is the minimum of 300 and the caps
\* of all rules that fired, for every event list.
C14_RunningMinimum ==
    instruction # NoInstruction =>
        /\ instruction.max_tokens \in Caps(drift_events)
        /\ \A c \in Caps(drift_events) : instruction.max_tokens <= c

\* the mode of a mode-setting event
ModeOf(type) == CASE type = DENIAL_IGNORED -> REPAIR
                  [] type = TOPIC_SHIFT -> REFOCUS
                  [] type = SPECULATION_CHAIN -> FACT_ONLY

ModeSetters(events) ==
    {i \in 1..Len(events) :
        events[i].drift_type \in {DENIAL_IGNORED, TOPIC_SHIFT, SPECULATION_CHAIN}}

\* C15: without a critical event, the mode is the one of the last mode-setting
\* event of the list, and NORMAL when there is none.
C15_LastWriteWins ==
    (instruction # NoInstruction
     /\ \A i \in 1..Len(drift_events) : drift_events[i].severity < 8) =>
        instruction.mode =
            IF ModeSetters(drift_events) = {} THEN NORMAL
            ELSE LET last == CHOOSE i \in ModeSetters(drift_events) :
                                \A j \in ModeSetters(drift_events) : j <= i
                 IN ModeOf(drift_events[last].drift_type)

C15_Witness ==
    /\ instruction # NoInstruction
    /\ Len(drift_events) = 2
    /\ drift_events[1].drift_type = SPECULATION_CHAIN /\ drift_events[1].severity = 5
    /\ drift_events[2].drift_type = TOPIC_SHIFT /\ drift_events[2].severity = 5
    /\ instruction.mode = REFOCUS

\* the whole of register_candidates on one raw candidate
RegisterCandidate(raw, role, speculative, parent_hint) ==
    EnforceMaxTopics(
        RegisterLoop(topics, <<raw>>, IF parent_hint # None THEN parent_hint ELSE active_topic_id,
                     speculative, role, turn_index, allow_revival),
        active_topic_id, max_topics)

\* C16: register_candidates on a REJECTED topic (revival disallowed) and
\* register_assumed on a DENIED object append one evidence record to that node
\* and change nothing else, its last touched / updated turn included.
C16_EvidenceOnly ==
    /\ ~allow_revival =>
          \A raw \in RawTopics, role \in Roles, sp \in BOOLEAN, h \in ParentHints :
             LET k == IndexOf(topics, NormalizeTopic(raw)[1])
                 post == RegisterCandidate(raw, role, sp, h)
             IN (k # 0 /\ topics[k].status = REJECTED) =>
                   /\ Len(post) = Len(topics)
                   /\ Len(post[k].evidence) = Len(topics[k].evidence) + 1
                   /\ SubSeq(post[k].evidence, 1, Len(topics[k].evidence)) = topics[k].evidence
                   /\ post = [topics EXCEPT ![k].evidence = post[k].evidence]
    /\ \A x \in RawObjects, role \in Roles :
          LET id == ObjectId(x)
              post == RegisterAssumed(objects, x, role, reg_turn_index)
          IN (id \in DOMAIN objects /\ objects[id].status = DENIED) =>
                /\ DOMAIN post = DOMAIN objects
                /\ Len(post[id].evidence) = Len(objects[id].evidence) + 1
                /\ SubSeq(post[id].evidence, 1, Len(objects[id].evidence)) = objects[id].evidence
                /\ post = [objects EXCEPT ![id].evidence = post[id].evidence]

ParentOf(tp, id) == IF id \in Ids(tp) THEN Node(tp, id).parent_id ELSE None

\* target is met within n steps up the parent links, starting at cur
RECURSIVE Climb(_, _, _, _)
Climb(tp, cur, target, n) ==
    IF n = 0 \/ cur = None \/ cur \notin Ids(tp) THEN FALSE
    ELSE cur = target \/ Climb(tp, ParentOf(tp, cur), target, n - 1)

\* C17: the parent_id relation over the live topics is acyclic: no topic is
\* its own parent or ancestor.
C17_Forest ==
    \A i \in 1..Len(topics) :
        ~Climb(topics, topics[i].parent_id, topics[i].topic_id, Len(topics))

\* C18: after an enforcement call has evicted a topic v, no live topic lists
\* v among its children and no live topic has v as its parent.
C18_LinkRepair ==
    \A k \in 1..Len(enfLog) :
        \A v \in Removed(enfLog[k]) :
            \A i \in 1..Len(enfLog[k].post) :
                /\ enfLog[k].post[i].parent_id # v
                /\ ~Contains(enfLog[k].post[i].children_ids, v)

\* the post-state of set_focus on the refusal path, and the new focus on the
\* other path
FocusRefused(r, id) ==
    /\ id \in Ids(r.tp)
    /\ StatusOf(r.tp, id) = REJECTED
    /\ r.act = None

FocusTaken(r, id) ==
    /\ r.act = id
    /\ id \in Ids(r.tp)
    /\ StatusOf(r.tp, id) = ACTIVE
    /\ Node(r.tp, id).last_touched_turn = turn_index

\* C20, as stated: after set_focus(t), a REJECTED t (revival disallowed) is
\* still REJECTED and nothing is in focus; otherwise t is the focus, live,
\* ACTIVE, touched at the current turn, and the previous focus, if another
\* topic, has status AVAILABLE.
C20_SetFocusPost ==
    \A x \in RawTopics :
       LET id == NormalizeTopic(x)[1]
           k == IndexOf(topics, id)
           r == SetFocus(Here, x, turn_index, max_topics, allow_revival)
       IN IF k # 0 /\ topics[k].status = REJECTED /\ ~allow_revival
          THEN FocusRefused(r, id)
          ELSE /\ FocusTaken(r, id)
               /\ (active_topic_id # None /\ active_topic_id # id) =>
                     /\ active_topic_id \in Ids(r.tp)
                     /\ StatusOf(r.tp, active_topic_id) = AVAILABLE

\* C20, amended: the same, with the previous focus AVAILABLE if the
\* enforcement that ends the call has not evicted it.
C20_SetFocusPostLive ==
    \A x \in RawTopics :
       LET id == NormalizeTopic(x)[1]
           k == IndexOf(topics, id)
           r == SetFocus(Here, x, turn_index, max_topics, allow_revival)
       IN IF k # 0 /\ topics[k].status = REJECTED /\ ~allow_revival
          THEN FocusRefused(r, id)
          ELSE /\ FocusTaken(r, id)
               /\ (active_topic_id # None /\ active_topic_id # id
                    /\ active_topic_id \in Ids(r.tp)) =>
                     StatusOf(r.tp, active_topic_id) = AVAILABLE

C20_Witness ==
    /\ turn_index >= 1
    /\ active_topic_id # None
    /\ \E i \in 1..Len(topics), j \in 1..Len(topics) :
          /\ topics[i].topic_id = active_topic_id
          /\ topics[i].status = ACTIVE
          /\ topics[i].last_touched_turn = turn_index
          /\ HasNote(topics[i], "(focus-created)")
          /\ i # j
          /\ topics[j].status = AVAILABLE
          /\ HasNote(topics[j], "(focus-created)")

\* the state of the tracker and of the registry
Untouched ==
    UNCHANGED <<turn_index, topics, active_topic_id, focus_history, max_topics,
                dormant_after_turns, allow_revival, reg_turn_index, objects>>

\* C13: a query helper changes neither the tracker nor the registry and
\* creates no node; for a name that denotes no node is_topic_confirmed,
\* can_assume_exists and is_denied answer false and
\* should_use_cautious_language answers true.
C13_RestrictiveQueries ==
    [][/\ \A x \in RawTopics :
             is_topic_confirmed(x) =>
                /\ Untouched
                /\ NormalizeTopic(x)[1] \notin Ids(topics) => answer'.value = FALSE
       /\ should_avoid_assertive_questions => Untouched
       /\ \A x \in RawObjects :
             /\ query_can_assume_exists(x) =>
                   /\ Untouched
                   /\ ObjectId(x) \notin DOMAIN objects => answer'.value = FALSE
             /\ query_is_denied(x) =>
                   /\ Untouched
                   /\ ObjectId(x) \notin DOMAIN objects => answer'.value = FALSE
             /\ query_should_use_cautious_language(x) =>
                   /\ Untouched
                   /\ ObjectId(x) \notin DOMAIN objects => answer'.value = TRUE]_vars

C13_Witness ==
    /\ answer # NoAnswer
    /\ answer.query = "should_use_cautious_language"
    /\ answer.value = TRUE
    /\ ObjectId(answer.name) \notin DOMAIN objects
    /\ DOMAIN objects # {}
    /\ topics # <<>>

\* the first two rules of PolicyGate.evaluate, on the request last evaluated
DriftRule == gate_policy.block_on_drift /\ gate_request.drift_status = "drifting"

ScoreRule ==
    /\ gate_policy.max_allowed_drift_score # None
    /\ \/ gate_request.drift_score = None
       \/ gate_request.drift_score[1] < gate_policy.max_allowed_drift_score[1]

\* C19: evaluate blocks on drift_status "drifting" when block_on_drift is set,
\* whatever the score and the memory ids; else blocks with an incident on a
\* missing or below-threshold score when a threshold is configured; else
\* allows without incident, also with no memory injected; allowed is true
\* exactly when the decision is ALLOW.
C19_PolicyPrecedence ==
    gate_decision # NoDecision =>
        /\ DriftRule => gate_decision.decision = "BLOCK"
        /\ (~DriftRule /\ ScoreRule) =>
              gate_decision.decision = "BLOCK" /\ gate_decision.incident_flag
        /\ (~DriftRule /\ ~ScoreRule) =>
              gate_decision.decision = "ALLOW" /\ ~gate_decision.incident_flag
        /\ gate_decision.allowed <=> gate_decision.decision = "ALLOW"

C19_Witness ==
    /\ gate_decision # NoDecision
    /\ gate_policy.block_on_drift
    /\ gate_policy.max_allowed_drift_score = <<75>>
    /\ gate_request.drift_status = "stable"
    /\ gate_request.drift_score = <<75>>
    /\ gate_request.injected_memory_ids = <<>>
    /\ gate_decision.decision = "ALLOW"

\* C21: on_turn_start(t) makes DORMANT every topic that is neither ACTIVE nor
\* REJECTED and was last touched dormant_after_turns turns ago or more, keeps
\* every other status, appends the focus once to the focus history, and
\* changes nothing else of the topics or the focus.
C21_TurnStart ==
    [][\A t \in (turn_index + 1)..(turn_index + 2) :
          on_turn_start(t) =>
             /\ Len(topics') = Len(topics)
             /\ \A i \in 1..Len(topics) :
                   topics'[i] =
                      [topics[i] EXCEPT !.status =
                          IF topics[i].status \notin {ACTIVE, REJECTED}
                             /\ t - topics[i].last_touched_turn >= dormant_after_turns
                          THEN DORMANT ELSE @]
             /\ focus_history' = Append(focus_history, active_topic_id)
             /\ active_topic_id' = active_topic_id
             /\ turn_index' = t]_vars

C21_Witness ==
    /\ Len(focus_history) = 1
    /\ focus_history[1] # None
    /\ turn_index = 2
    /\ \E i \in 1..Len(topics), j \in 1..Len(topics) :
          /\ topics[i].status = DORMANT /\ topics[i].last_touched_turn = 0
          /\ topics[j].status = ACTIVE /\ topics[j].last_touched_turn = 0

\* the ids a candidate list denotes
CandidateIds(candidates) == {NormalizeTopic(candidates[i])[1] : i \in 1..Len(candidates)}

\* C22: register_candidates leaves the status of a candidate that is already
\* a live topic as it is, except that a speculative call makes it SPECULATIVE
\* when it is neither REJECTED nor ACTIVE; a DORMANT topic mentioned again
\* stays DORMANT.  (A topic the closing enforcement evicts has no status.)
\* Stated as: no register_candidates step ends with another status.
C22_NeverUpgrades ==
    [][\A i \in 1..Len(topics), j \in 1..Len(topics'), sp \in BOOLEAN :
          (/\ topics'[j].topic_id = topics[i].topic_id
           /\ topics'[j].status #
                 IF sp /\ topics[i].status \notin {REJECTED, ACTIVE}
                 THEN SPECULATIVE ELSE topics[i].status)
          => \A c \in CandidateLists :
                topics[i].topic_id \in CandidateIds(c) =>
                   \A role \in Roles, h \in ParentHints :
                      ~register_candidates(role, c, sp, h)]_vars

C22_Witness ==
    \E i \in 1..Len(topics) :
        /\ topics[i].status = DORMANT
        /\ topics[i].last_touched_turn = turn_index
        /\ Len(topics[i].evidence) = 2
        /\ topics[i].evidence[2] = TopicEvidence(turn_index, "user", "")

C29_ChildrenConsistent ==
    \A i \in 1..Len(topics) :
        LET ch == topics[i].children_ids
        IN /\ \A k \in 1..Len(ch) :
                 /\ ch[k] \in Ids(topics)
                 /\ Node(topics, ch[k]).parent_id = topics[i].topic_id
           /\ \A k \in 1..Len(ch), l \in 1..Len(ch) : ch[k] = ch[l] => k = l

C29_Witness ==
    \E k \in 1..Len(enfLog) :
        \E v \in Removed(enfLog[k]) :
            /\ Node(enfLog[k].pre, v).parent_id \in Ids(topics)
            /\ Contains(Node(enfLog[k].pre, Node(enfLog[k].pre, v).parent_id).children_ids, v)
            /\ v \notin Ids(topics)

\* positions of the topics finalize_focus may fall back to
FallbackCandidates == {i \in 1..Len(topics) : topics[i].status \in {AVAILABLE, SPECULATIVE, ACTIVE}}

C27_AssumedDowngrades ==
    [][\A x \in RawObjects :
          (register_assumed(x, "ai") /\ ~is_denied(objects, x)) =>
             /\ objects'[ObjectId(x)].status = ASSUMED
             /\ ~can_assume_exists(objects', x)
             /\ should_use_cautious_language(objects', x)]_vars

\* an object the user confirmed and the assistant then assumed
C27_Witness ==
    \E id \in DOMAIN objects :
        LET ev == objects[id].evidence
        IN /\ objects[id].status = ASSUMED
           /\ Len(ev) >= 2
           /\ ev[Len(ev)] = ObjectEvidence(reg_turn_index, "ai", "")
           /\ ev[Len(ev) - 1].role = "user"
           /\ ev[Len(ev) - 1].note = ""

\* the turns of the processed detect calls that carried a flag, oldest first
QuestionTurns == [i \in 1..Len(SelectSeq(det_log, LAMBDA e : e.is_question)) |->
                    SelectSeq(det_log, LAMBDA e : e.is_question)[i].turn_index]
SpeculationTurns == [i \in 1..Len(SelectSeq(det_log, LAMBDA e : e.speculation)) |->
                       SelectSeq(det_log, LAMBDA e : e.speculation)[i].turn_index]

\* C24: detect emits QUESTION_LOOP only if is_question was true in the
\* current call and in each of the two processed calls immediately before it.
C24_Continuity ==
    CountOf(det_events, QUESTION_LOOP) > 0 =>
       /\ Len(det_log) >= 3
       /\ \A k \in (Len(det_log) - 2)..Len(det_log) : det_log[k].is_question

\* C26: the question window holds at most 5 turns and the speculation window
\* at most 3; each holds the most recent flagged processed turns in strictly
\* increasing order, no entry exceeds the last processed turn, and no detect
\* call lowers the last processed turn.
C26_BoundedWindows ==
    /\ Len(recent_questions) <= 5
    /\ Len(recent_speculation) <= 3
    /\ recent_questions = LastN(QuestionTurns, 5)
    /\ recent_speculation = LastN(SpeculationTurns, 3)
    /\ \A w \in {recent_questions, recent_speculation} :
          /\ \A i \in 1..Len(w) : w[i] <= last_turn_checked
          /\ \A i \in 1..(Len(w) - 1) : w[i] < w[i + 1]
    /\ \A t \in (last_turn_checked - 1)..(last_turn_checked + 1), ai \in AiIntents :
          Detect(Detector, t, QuietUser, ai, None, None, <<>>).d.last >= last_turn_checked

\* both windows are full and each has dropped its oldest turn
C26_Witness ==
    /\ Len(recent_questions) = 5
    /\ Len(QuestionTurns) = 6
    /\ Len(recent_speculation) = 3
    /\ Len(SpeculationTurns) > 3

\* C25: a processed detect call records its turn in the speculation window
\* exactly when ai_intent.speculation is true, whatever the user requested,
\* and emits SPECULATION_CHAIN, with severity 0.8, exactly when
\* ai_intent.followup_question is true and the window after that update
\* holds at least 2 turns.  Stated as: no processed detect step ends otherwise.
C25_SpeculationChain ==
    [][\A t \in DetectTurns, ai \in AiIntents :
          (/\ t > last_turn_checked
           /\ t = last_turn_checked'
           /\ ~(/\ recent_speculation' =
                      IF ai.speculation
                      THEN LastN(Append(recent_speculation, t), 3)
                      ELSE recent_speculation
                /\ CountOf(det_events', SPECULATION_CHAIN) =
                      IF ai.followup_question /\ Len(recent_speculation') >= 2 THEN 1 ELSE 0
                /\ \A i \in 1..Len(det_events') :
                      det_events'[i].drift_type = SPECULATION_CHAIN =>
                         det_events'[i] = DriftEvent(SPECULATION_CHAIN, t, 8)))
          => \A ui \in UserIntents : ~detect(t, ui, ai, None, None, <<>>)]_vars

\* a chain reported on a turn that is not itself speculative
C25_Witness ==
    /\ ~det_skipped
    /\ CountOf(det_events, SPECULATION_CHAIN) = 1
    /\ Len(recent_speculation) = 2
    /\ \A i \in 1..Len(recent_speculation) : recent_speculation[i] < last_turn_checked

\* C30: on the events of one detect call, decide answers REPAIR when they
\* hold a DENIAL_IGNORED or a SPECULATION_CHAIN, otherwise REFOCUS when they
\* hold a TOPIC_SHIFT, otherwise NORMAL; FACT_ONLY, NO_QUESTION and
\* SHORT_RESPONSE never come out.
C30_PipelineMode ==
    Decide(det_events).mode =
       IF CountOf(det_events, DENIAL_IGNORED) > 0 \/ CountOf(det_events, SPECULATION_CHAIN) > 0
       THEN REPAIR
       ELSE IF CountOf(det_events, TOPIC_SHIFT) > 0 THEN REFOCUS ELSE NORMAL

C30_Witness ==
    /\ ~det_skipped
    /\ CountOf(det_events, TOPIC_SHIFT) = 1
    /\ CountOf(det_events, DENIAL_IGNORED) = 0
    /\ CountOf(det_events, SPECULATION_CHAIN) = 1
    /\ Decide(det_events).mode = REPAIR

====
